---------------------------- MODULE Spec2Model ----------------------------
(***************************************************************************)
(* Basketball trajectory (src/src/main.rs, src/src/svg_gen.rs).            *)
(*                                                                         *)
(* f64 values are modelled as fixed-point integers with Scale units per    *)
(* 1.0 (metres, seconds, pixels in thousandths).  Every f64 multiplication *)
(* and division rounds its exact result to the nearest representable       *)
(* value, as IEEE arithmetic does at its own resolution.                   *)
(***************************************************************************)
EXTENDS Integers, Sequences, FiniteSets, TLC

\* Units per 1.0 of an f64 quantity.
Scale == 1000

-----------------------------------------------------------------------------
(* Bounds of the model. *)

\* Most set_pixel_meters calls made on one DisplayCMD.
MaxCalls == 2

\* Longest trajectory handed to plot_trajectory_svg.
MaxSamples == 2

\* Largest step count num_steps tried.
MaxSteps == 5

-----------------------------------------------------------------------------
(* f64 arithmetic at fixed-point resolution. *)

Abs(a) == IF a >= 0 THEN a ELSE -a

Sign(a) == IF a >= 0 THEN 1 ELSE -1

Max(a, b) == IF a >= b THEN a ELSE b

Min(a, b) == IF a <= b THEN a ELSE b

\* a / b for integers, b > 0, rounded to the nearest integer (half away from 0).
RDiv(a, b) == Sign(a) * ((Abs(a) + b \div 2) \div b)

\* f64 product of two fixed-point values, rounded to nearest.  The larger
\* factor is split into whole and fractional parts so that no intermediate
\* product leaves the integer range; the result is that of RDiv(a*b, Scale).
FMul(a, b) ==
    LET big   == Max(Abs(a), Abs(b))
        small == Min(Abs(a), Abs(b))
    IN  Sign(a) * Sign(b)
          * ((big \div Scale) * small + RDiv((big % Scale) * small, Scale))

\* f64 quotient of two fixed-point values, b # 0, rounded to nearest.
FDiv(a, b) == Sign(a) * Sign(b) * RDiv(Abs(a) * Scale, Abs(b))

\* Largest r in lo..hi with r*r <= n.
RECURSIVE SqrtSearch(_, _, _)
SqrtSearch(n, lo, hi) ==
    IF lo >= hi THEN lo
    ELSE LET mid == (lo + hi + 1) \div 2
         IN  IF mid * mid <= n THEN SqrtSearch(n, mid, hi)
                               ELSE SqrtSearch(n, lo, mid - 1)

\* f64::sqrt of a fixed-point value a >= 0, rounded to nearest.
FSqrt(a) ==
    LET n == a * Scale
        r == SqrtSearch(n, 0, Min(n, 46340))
    IN  IF n - r * r > r THEN r + 1 ELSE r

\* f64::cos and f64::sin of the angle, taken as radians, for the angles the
\* model launches at: 0, pi/4, pi/2, pi and 45.0 (the value main() passes).
Cos(teta) ==
    CASE teta = 0     -> 1000
      [] teta = 785   -> 707
      [] teta = 1571  -> 0
      [] teta = 3142  -> -1000
      [] teta = 45000 -> 525

Sin(teta) ==
    CASE teta = 0     -> 0
      [] teta = 785   -> 707
      [] teta = 1571  -> 1000
      [] teta = 3142  -> 0
      [] teta = 45000 -> 851

-----------------------------------------------------------------------------
(* Program constants. *)

\* const GRAVITY: f64 = 9.807
GRAVITY == 9807

\* const MIN_BALL_DELTA_TO_BASKET_CENTER: f64 = 0.1
MIN_BALL_DELTA_TO_BASKET_CENTER == 100

-----------------------------------------------------------------------------
(* State. *)

VARIABLES
    args,                 \* basketball_2d's arguments
    bb_pc,                \* basketball_2d: "start", "loop", "returned", "panicked"
    time_steps,           \* basketball_2d: the Vec get_time_steps returned
    step_idx,             \* basketball_2d: time steps the for loop has consumed
    ball,                 \* basketball_2d: the loop body's locals, last iteration
    trajectory_2d,        \* the Vec of (t, (x, y), flag_enter_instant)
    flag_into_the_basket, \* the Trajectory's bool
    display_cmd,          \* DisplayCMD: buf, num_rows, num_cols, rows_meters, cols_meters
    grid_pc,              \* DisplayCMD caller: "ready", "panicked"
    call,                 \* arguments of the latest set_pixel_meters call
    num_calls,            \* set_pixel_meters calls made
    canvas,               \* plot_trajectory_svg's svg_x_max, svg_y_max
    plot,                 \* plot_trajectory_svg's locals x_max, y_max, max_x_y, scale_factor
    svg,                  \* svg_gen::SVG: width, height, background_color, elem_str_vec
    svg_pc,               \* main after basketball_2d: "plot", "to_file", "create", "write", "done", "panicked"
    res_str,              \* to_file: the String to_file_string returned
    fs,                   \* the file system: calls made on it, the file's content
    to_file_result        \* to_file's Result<(), String>

vars == << args, bb_pc, time_steps, step_idx, ball, trajectory_2d,
           flag_into_the_basket, display_cmd, grid_pc, call, num_calls,
           canvas, plot, svg, svg_pc, res_str, fs, to_file_result >>

engine_vars == << args, bb_pc, time_steps, step_idx, ball >>

trajectory_vars == << trajectory_2d, flag_into_the_basket >>

grid_vars == << display_cmd, grid_pc, call, num_calls >>

svg_vars == << canvas, plot, svg, svg_pc, res_str, fs, to_file_result >>

-----------------------------------------------------------------------------
(* Trajectory engine: basketball_2d and what it calls. *)

\* get_time_steps: 0, then delta_t * step for step in 1..inner_steps, then
\* simulation_sec.
get_time_steps(simulation_sec, num_steps) ==
    LET inner_steps == num_steps - 1
        delta_t     == FDiv(simulation_sec, inner_steps * Scale)
    IN  << 0 >>
          \o [step \in 1..inner_steps |-> FMul(delta_t, step * Scale)]
          \o << simulation_sec >>

\* f64::powi(d, 2)
Powi2(d) == FMul(d, d)

euclidean_distance(p_x, p_y, p_z, q_x, q_y, q_z) ==
    FSqrt(Powi2(p_x - q_x) + Powi2(p_y - q_y) + Powi2(p_z - q_z))

\* let v_0_x = v_0 * f64::cos(teta_0)
V0X(a) == FMul(a.v_0, Cos(a.teta_0))

\* let v_0_y = v_0 * f64::sin(teta_0)
V0Y(a) == FMul(a.v_0, Sin(a.teta_0))

\* let ball_x = x_0 + v_0_x * t
BallX(a, t) == a.pos_0_x + FMul(V0X(a), t)

\* let ball_y = y_0 + v_0_y * t - (1.0/2.0) * GRAVITY * t * t
BallY(a, t) ==
    a.pos_0_y + FMul(V0Y(a), t)
      - FMul(FMul(FMul(FDiv(Scale, 2 * Scale), GRAVITY), t), t)

\* PreconditionsHold with the step count's assert off by one: N = 2 passes.
PreconditionsHoldMut(a) ==
    /\ a.v_0 > 0
    /\ a.simulation_sec > 0
    /\ a.num_steps >= 2

\* The three assert!s that open basketball_2d.
PreconditionsHold(a) ==
    /\ a.v_0 > 0
    /\ a.simulation_sec > 0
    /\ a.num_steps > 2

\* Entered with the capture radius exclusive.
EnteredMut(dist) == dist < MIN_BALL_DELTA_TO_BASKET_CENTER

\* if dist <= MIN_BALL_DELTA_TO_BASKET_CENTER
Entered(dist) == dist <= MIN_BALL_DELTA_TO_BASKET_CENTER

\* Retained with a sample on the ground dropped.
RetainedMut(ball_y) == ball_y > 0

\* if ball_y >= 0.0
Retained(ball_y) == ball_y >= 0

\* The loop body's locals at time t.
BodyLocals(a, t) ==
    LET x == BallX(a, t)
        y == BallY(a, t)
        d == euclidean_distance(x, y, 0, a.basket_pos_x, a.basket_pos_y, 0)
    IN  [ t |-> t, ball_x |-> x, ball_y |-> y, dist |-> d,
          flag_enter_instant |-> Entered(d) ]

NoLocals ==
    [ t |-> 0, ball_x |-> 0, ball_y |-> 0, dist |-> 0,
      flag_enter_instant |-> FALSE ]

\* One of the asserts fails: the call panics before anything is computed.
Basketball2dPanic ==
    /\ bb_pc = "start"
    /\ ~PreconditionsHold(args)
    /\ bb_pc' = "panicked"
    /\ UNCHANGED << args, time_steps, step_idx, ball, trajectory_vars,
                    grid_vars, svg_vars >>

\* The asserts pass; time_steps, trajectory_2d and the flag are initialised.
Basketball2dBegin ==
    /\ bb_pc = "start"
    /\ PreconditionsHold(args)
    /\ time_steps' = get_time_steps(args.simulation_sec, args.num_steps)
    /\ trajectory_2d' = << >>
    /\ flag_into_the_basket' = FALSE
    /\ step_idx' = 0
    /\ bb_pc' = "loop"
    /\ UNCHANGED << args, ball, grid_vars, svg_vars >>

\* One iteration of `for t in time_steps`.
Basketball2dStep ==
    /\ bb_pc = "loop"
    /\ step_idx < Len(time_steps)
    /\ LET b == BodyLocals(args, time_steps[step_idx + 1])
       IN  /\ ball' = b
           /\ flag_into_the_basket' =
                (IF b.flag_enter_instant THEN TRUE ELSE flag_into_the_basket)
           /\ trajectory_2d' =
                (IF Retained(b.ball_y)
                 THEN Append(trajectory_2d,
                             << b.t, << b.ball_x, b.ball_y >>,
                                b.flag_enter_instant >>)
                 ELSE trajectory_2d)
    /\ step_idx' = step_idx + 1
    /\ UNCHANGED << args, bb_pc, time_steps, grid_vars, svg_vars >>

\* The loop is over: (flag_into_the_basket, trajectory_2d) is returned.
Basketball2dReturn ==
    /\ bb_pc = "loop"
    /\ step_idx = Len(time_steps)
    /\ bb_pc' = "returned"
    /\ UNCHANGED << args, time_steps, step_idx, ball, trajectory_vars,
                    grid_vars, svg_vars >>

-----------------------------------------------------------------------------
(* Character grid: DisplayCMD. *)

\* usize wraps modulo this (2^64 in the program; every grid is smaller).
UsizeModulus == 2^30

\* a - b on usize in a build without overflow checks.  A build with them
\* panics where this wraps; the wrapped index fails set_pixel's assert, so
\* both builds panic with the same buffer.
WrappingSub(a, b) == IF a >= b THEN a - b ELSE UsizeModulus + a - b

\* f64::round(v) as usize: round half away from zero, negative saturates to 0.
RoundAsUsize(v) == Max(0, RDiv(v, Scale))

\* DisplayCMD::new
DisplayCMD_new(num_rows, num_cols, rows_meters, cols_meters) ==
    [ buf         |-> [i \in 1..(num_rows * num_cols) |-> " "],
      num_rows    |-> num_rows,
      num_cols    |-> num_cols,
      rows_meters |-> rows_meters,
      cols_meters |-> cols_meters ]

\* set_pixel's two asserts.
InGrid(d, row, col) == row < d.num_rows /\ col < d.num_cols

\* The set_pixel calls of `writes` (each << ch, row, col >>) made in order on
\* buffer buf; the first failed assert panics and keeps what was written.
RECURSIVE SetPixels(_, _, _)
SetPixels(d, buf, writes) ==
    IF writes = << >> THEN [ buf |-> buf, panicked |-> FALSE ]
    ELSE LET w == Head(writes)
         IN  IF InGrid(d, w[2], w[3])
             THEN SetPixels(d,
                            [buf EXCEPT ![w[2] * d.num_cols + w[3] + 1] = w[1]],
                            Tail(writes))
             ELSE [ buf |-> buf, panicked |-> TRUE ]

\* GridIndex with the cell count in place of the last index.
GridIndexMut(meters_p, num_cells, meters) ==
    RoundAsUsize(FDiv(FMul(meters_p, num_cells * Scale), meters))

\* let row = (row_meters_p * (self.num_rows - 1) as f64) / self.rows_meters;
\* let row = f64::round(row) as usize;   (and the same for col)
GridIndex(meters_p, num_cells, meters) ==
    RoundAsUsize(FDiv(FMul(meters_p, (num_cells - 1) * Scale), meters))

\* DisplayCMD::set_pixel_meters: the buffer it leaves and whether it panicked.
set_pixel_meters(d, ch, row_meters_p, col_meters_p, flag_enter_instant) ==
    IF ~(row_meters_p <= d.rows_meters) \/ ~(col_meters_p <= d.cols_meters)
    THEN [ buf |-> d.buf, panicked |-> TRUE ]
    ELSE LET row == GridIndex(row_meters_p, d.num_rows, d.rows_meters)
             col == GridIndex(col_meters_p, d.num_cols, d.cols_meters)
         IN  SetPixels(d, d.buf,
                 IF flag_enter_instant
                 THEN << << "=", row, WrappingSub(col, 2) >>,
                         << "=", row, WrappingSub(col, 1) >>,
                         << "=", row, col + 1 >>,
                         << "=", row, col + 2 >>,
                         << "*", row, col >> >>
                 ELSE << << ch, row, col >> >>)

\* Grids (num_rows, num_cols) and the physical extents (rows_meters,
\* cols_meters) they cover.
GridSizes == { << 3, 6 >>, << 1, 5 >> }

GridMeters == { << 10000, 10000 >>, << 5000, 2500 >> }

\* Physical coordinates passed to set_pixel_meters.
Coords == { -1000, 0, 2500, 5000, 10000, 10001 }

\* One call of set_pixel_meters, as print_trajectory_2d makes for a sample.
SetPixelMeters ==
    /\ grid_pc = "ready"
    /\ num_calls < MaxCalls
    /\ \E y \in Coords, x \in Coords, f \in BOOLEAN :
          LET out == set_pixel_meters(display_cmd, "O", y, x, f)
          IN  /\ call' = [ ch |-> "O", row_meters_p |-> y, col_meters_p |-> x,
                           flag_enter_instant |-> f ]
              /\ display_cmd' = [display_cmd EXCEPT !.buf = out.buf]
              /\ grid_pc' = IF out.panicked THEN "panicked" ELSE "ready"
    /\ num_calls' = num_calls + 1
    /\ UNCHANGED << engine_vars, trajectory_vars, svg_vars >>

-----------------------------------------------------------------------------
(* f64 values that are not finite, and the arithmetic on them. *)

\* +inf, -inf, NaN and f64::MIN, outside the range of every finite value of
\* the model.
PosInf == 2^30

NegInf == -(2^30)

NaN == 2^30 + 1

F64Min == -(2^30) + 1

IsFinite(v) == v > NegInf /\ v < PosInf

Negated(v) == IF v = NaN THEN NaN ELSE -v

\* a / b with b = 0 giving an infinity (a # 0 here: a is the canvas width).
XDiv(a, b) ==
    IF b = 0 THEN (IF a > 0 THEN PosInf ELSE NegInf) ELSE FDiv(a, b)

\* a * b where b may be an infinity: 0 * inf is NaN.
XMul(a, b) ==
    IF IsFinite(b) THEN FMul(a, b)
    ELSE IF a = 0 THEN NaN
    ELSE IF a > 0 THEN b ELSE Negated(b)

\* a - b where either may be infinite or NaN.
XSub(a, b) ==
    IF a = NaN \/ b = NaN THEN NaN
    ELSE IF ~IsFinite(a) THEN a
    ELSE IF ~IsFinite(b) THEN Negated(b)
    ELSE a - b

-----------------------------------------------------------------------------
(* SVG output: plot_trajectory_svg and svg_gen::SVG.  A String is the       *)
(* sequence of the markup pieces written to it; a piece records its tag,   *)
(* its id, its position, its fill, its other attributes and whether it     *)
(* ends with a line break.                                                 *)

Piece(tag) ==
    [ tag |-> tag, id |-> "", x |-> 0, y |-> 0, fill |-> "",
      attrs |-> << >>, nl |-> TRUE ]

\* "{:.2}" of an f64: two decimals, as a count of hundredths; inf and NaN
\* print as themselves.
Fmt2(v) == IF IsFinite(v) THEN RDiv(v, 10) ELSE v

\* Color::to_string of the colours used.
ColorToString(color) ==
    CASE color = "Black"  -> "black"
      [] color = "White"  -> "white"
      [] color = "Blue"   -> "blue"
      [] color = "Green"  -> "green"
      [] color = "Red"    -> "red"
      [] color = "Yellow" -> "yellow"

\* SVG::new
SVG_new(width, height, background_color) ==
    [ width |-> width, height |-> height,
      background_color |-> background_color, elem_str_vec |-> << >> ]

\* SVG::add_elem
add_elem(self, elem_str) ==
    [self EXCEPT !.elem_str_vec = Append(@, elem_str)]

\* String::ends_with('\n')
EndsWithNewline(str) == Len(str) > 0 /\ str[Len(str)].nl

RECURSIVE AppendElems(_, _)
AppendElems(str_buf, elems) ==
    IF elems = << >> THEN str_buf
    ELSE LET elem_str == Head(elems)
             pushed   == str_buf \o elem_str
         IN  AppendElems(IF ~EndsWithNewline(elem_str)
                         THEN Append(pushed, Piece("newline"))
                         ELSE pushed,
                         Tail(elems))

\* SVG::to_string_append
to_string_append(self, str_buf) ==
    AppendElems(IF self.background_color # "None"
                THEN Append(str_buf,
                        [Piece("rect") EXCEPT
                            !.attrs = << "width=100%", "height=100%" >>,
                            !.fill = ColorToString(self.background_color)])
                ELSE str_buf,
                self.elem_str_vec)

\* SVG::to_file_string: header, body, footer.
to_file_string(self) ==
    Append(to_string_append(self,
               << [Piece("svg") EXCEPT !.x = Fmt2(self.width),
                                       !.y = Fmt2(self.height)] >>),
           Piece("/svg"))

\* The largest of the values f gives for the samples, from f64::MIN.
RECURSIVE MaxOver(_, _, _)
MaxOver(samples, coord, acc) ==
    IF samples = << >> THEN acc
    ELSE MaxOver(Tail(samples), coord,
                 IF Head(samples)[2][coord] > acc
                 THEN Head(samples)[2][coord] ELSE acc)

\* ScaleFactor fitting the x extent alone.
ScaleFactorMut(svg_x_max, x_max, y_max) == XDiv(svg_x_max, x_max)

\* let max_x_y = f64::max(x_max, y_max);
\* let scale_factor = svg_x_max as f64 / max_x_y;
ScaleFactor(svg_x_max, x_max, y_max) == XDiv(svg_x_max, Max(x_max, y_max))

\* plot_trajectory_svg's locals once both maxima are found.
PlotLocals(samples, svg_x_max) ==
    LET x_max == MaxOver(samples, 1, F64Min)
        y_max == MaxOver(samples, 2, F64Min)
    IN  [ x_max |-> x_max, y_max |-> y_max, max_x_y |-> Max(x_max, y_max),
          scale_factor |-> ScaleFactor(svg_x_max, x_max, y_max) ]

NoPlot == [ x_max |-> 0, y_max |-> 0, max_x_y |-> 0, scale_factor |-> 0 ]

\* x * scale_factor
ProjX(x, scale_factor) == XMul(x, scale_factor)

\* svg_y_max as f64 - y * scale_factor
ProjY(y, scale_factor, svg_y_max) == XSub(svg_y_max, XMul(y, scale_factor))

\* TraceFill with the two colours exchanged.
TraceFillMut(flag_enter_instant) ==
    IF flag_enter_instant THEN "blue" ELSE "green"

\* if *flag_enter_instant {"green"} else {"blue"}
TraceFill(flag_enter_instant) ==
    IF flag_enter_instant THEN "green" ELSE "blue"

\* The <circle> of one sample.
TraceCircle(sample, l, c) ==
    [Piece("circle") EXCEPT
        !.x = Fmt2(ProjX(sample[2][1], l.scale_factor)),
        !.y = Fmt2(ProjY(sample[2][2], l.scale_factor, c.svg_y_max)),
        !.attrs = << "r=2.00" >>,
        !.fill = TraceFill(sample[3])]

\* The <rect> of the basket.
BasketRect(basket_pos_x, basket_pos_y, l, c) ==
    [Piece("rect") EXCEPT
        !.x = Fmt2(XSub(XMul(basket_pos_x, l.scale_factor), 10 * Scale)),
        !.y = Fmt2(XSub(XSub(c.svg_y_max, XMul(basket_pos_y, l.scale_factor)),
                        2 * Scale)),
        !.attrs = << "width=20.00", "height=4.00",
                     "style=fill:green;stroke:green;stroke-width:1.00" >>]

\* One "L x,y" of the motion path.
PathLine(sample, l, c) ==
    [Piece("L") EXCEPT
        !.x = Fmt2(ProjX(sample[2][1], l.scale_factor)),
        !.y = Fmt2(ProjY(sample[2][2], l.scale_factor, c.svg_y_max))]

\* The elem_str plot_trajectory_svg builds for a non-empty trajectory.
ElemStr(samples, basket_pos_x, basket_pos_y, l, c) ==
    [i \in 1..Len(samples) |-> TraceCircle(samples[i], l, c)]
      \o << BasketRect(basket_pos_x, basket_pos_y, l, c) >>
      \o << [Piece("path") EXCEPT
                !.id = "motionPath",
                !.attrs = << "fill=none" >>,
                !.x = Fmt2(ProjX(samples[1][2][1], l.scale_factor)),
                !.y = Fmt2(ProjY(samples[1][2][2], l.scale_factor,
                                 c.svg_y_max))] >>
      \o [i \in 1..Len(samples) |-> PathLine(samples[i], l, c)]
      \o << Piece("/path") >>
      \o << [Piece("circle") EXCEPT
                !.id = "circle", !.x = Fmt2(0), !.y = Fmt2(0),
                !.attrs = << "r=3" >>, !.fill = "yellow"] >>
      \o << [Piece("animateMotion") EXCEPT
                !.attrs = << "xlink:href=#circle", "dur=3s", "begin=0s",
                             "fill=freeze", "repeatCount=indefinite",
                             "mpath xlink:href=#motionPath" >>,
                !.nl = FALSE] >>

\* plot_trajectory_svg on an empty trajectory: trajectory_2d.1[0] is out of
\* bounds and the call panics.
PlotTrajectorySvgPanic ==
    /\ svg_pc = "plot"
    /\ trajectory_2d = << >>
    /\ plot' = PlotLocals(trajectory_2d, canvas.svg_x_max)
    /\ svg_pc' = "panicked"
    /\ UNCHANGED << engine_vars, trajectory_vars, grid_vars, canvas, svg,
                    res_str, fs, to_file_result >>

\* plot_trajectory_svg on a trajectory with samples.
PlotTrajectorySvg ==
    /\ svg_pc = "plot"
    /\ trajectory_2d # << >>
    /\ LET l == PlotLocals(trajectory_2d, canvas.svg_x_max)
       IN  /\ plot' = l
           /\ svg' = add_elem(
                        SVG_new(canvas.svg_x_max, canvas.svg_y_max, "Black"),
                        ElemStr(trajectory_2d, args.basket_pos_x,
                                args.basket_pos_y, l, canvas))
    /\ svg_pc' = "to_file"
    /\ UNCHANGED << engine_vars, trajectory_vars, grid_vars, canvas,
                    res_str, fs, to_file_result >>

\* std::io::Error::to_string of the errors the file system raises.
ErrorToString(error) ==
    CASE error = "NotFound"         -> "No such file or directory (os error 2)"
      [] error = "PermissionDenied" -> "Permission denied (os error 13)"
      [] error = "StorageFull"      -> "No space left on device (os error 28)"

CreateErrors == { "NotFound", "PermissionDenied" }

WriteErrors == { "StorageFull" }

NoFile == [ calls |-> << >>, exists |-> FALSE, content |-> << >> ]

NoResult == << "none", "" >>

\* to_file: let res_str = self.to_file_string();
ToFileString ==
    /\ svg_pc = "to_file"
    /\ res_str' = to_file_string(svg)
    /\ svg_pc' = "create"
    /\ UNCHANGED << engine_vars, trajectory_vars, grid_vars, canvas, plot,
                    svg, fs, to_file_result >>

\* AfterCreate going on to the write whatever File::create returned.
AfterCreateMut(outcome) == [ pc |-> "write", result |-> NoResult ]

\* match File::create(..) { Ok(file) => f = file, Err(error) => return Err(..) }
AfterCreate(outcome) ==
    IF outcome = "Ok"
    THEN [ pc |-> "write", result |-> NoResult ]
    ELSE [ pc |-> "done", result |-> << "Err", ErrorToString(outcome) >> ]

\* match f.write_all(..) { Ok(()) => (), Err(error) => return Err(..) }; Ok(())
AfterWrite(outcome) ==
    IF outcome = "Ok"
    THEN [ pc |-> "done", result |-> << "Ok", "" >> ]
    ELSE [ pc |-> "done", result |-> << "Err", ErrorToString(outcome) >> ]

\* to_file: File::create succeeds (the file exists, empty) or fails.
FileCreate ==
    /\ svg_pc = "create"
    /\ \E outcome \in { "Ok" } \cup CreateErrors :
          /\ fs' = [ calls   |-> Append(fs.calls, << "create", outcome >>),
                     exists  |-> IF outcome = "Ok" THEN TRUE ELSE fs.exists,
                     content |-> IF outcome = "Ok" THEN << >> ELSE fs.content ]
          /\ svg_pc' = AfterCreate(outcome).pc
          /\ to_file_result' = AfterCreate(outcome).result
    /\ UNCHANGED << engine_vars, trajectory_vars, grid_vars, canvas, plot,
                    svg, res_str >>

\* to_file: write_all writes everything, or fails having written a part.
WriteAll ==
    /\ svg_pc = "write"
    /\ \E outcome \in { "Ok" } \cup WriteErrors, written \in 0..1 :
          /\ fs' = [ calls   |-> Append(fs.calls, << "write", outcome >>),
                     exists  |-> fs.exists,
                     content |-> IF outcome = "Ok" THEN res_str
                                 ELSE SubSeq(res_str, 1, written) ]
          /\ svg_pc' = AfterWrite(outcome).pc
          /\ to_file_result' = AfterWrite(outcome).result
    /\ UNCHANGED << engine_vars, trajectory_vars, grid_vars, canvas, plot,
                    svg, res_str >>

-----------------------------------------------------------------------------
(* Idle values of the parts a specification does not run. *)

IdleEngine ==
    /\ args = [ pos_0_x |-> 0, pos_0_y |-> 0, v_0 |-> 0, teta_0 |-> 0,
                basket_pos_x |-> 0, basket_pos_y |-> 0,
                simulation_sec |-> 0, num_steps |-> 0 ]
    /\ bb_pc = "returned"
    /\ time_steps = << >>
    /\ step_idx = 0
    /\ ball = NoLocals

IdleGrid ==
    /\ display_cmd = [ buf |-> << >>, num_rows |-> 0, num_cols |-> 0,
                       rows_meters |-> 0, cols_meters |-> 0 ]
    /\ grid_pc = "ready"
    /\ call = [ ch |-> " ", row_meters_p |-> 0, col_meters_p |-> 0,
                flag_enter_instant |-> FALSE ]
    /\ num_calls = 0

IdleSvg ==
    /\ canvas = [ svg_x_max |-> 0, svg_y_max |-> 0 ]
    /\ plot = NoPlot
    /\ svg = [ width |-> 0, height |-> 0, background_color |-> "None",
               elem_str_vec |-> << >> ]
    /\ svg_pc = "idle"
    /\ res_str = << >>
    /\ fs = NoFile
    /\ to_file_result = NoResult

-----------------------------------------------------------------------------
(* Specification of the trajectory engine: basketball_2d on every argument  *)
(* tuple of a bounded set.                                                  *)

\* Launch positions (x, y): main()'s, one below the ground, one on it.
LaunchPositions == { << 0, 1500 >>, << 0, -50 >>, << 0, 0 >> }

\* Basket positions: main()'s, one exactly 0.1 m from main()'s launch
\* position, one on the ground at the origin.
BasketPositions == { << 8000, 3050 >>, << 100, 1500 >>, << 0, 0 >> }

Speeds == { 0, 10000 }

Angles == { 45000, 1571, 0 }

Durations == { 0, 1000, 2000 }

InitEngine ==
    /\ \E p \in LaunchPositions, q \in BasketPositions, v \in Speeds,
          a \in Angles, d \in Durations, n \in 0..MaxSteps :
          args = [ pos_0_x |-> p[1], pos_0_y |-> p[2], v_0 |-> v, teta_0 |-> a,
                   basket_pos_x |-> q[1], basket_pos_y |-> q[2],
                   simulation_sec |-> d, num_steps |-> n ]
    /\ bb_pc = "start"
    /\ time_steps = << >>
    /\ step_idx = 0
    /\ ball = NoLocals
    /\ trajectory_2d = << >>
    /\ flag_into_the_basket = FALSE
    /\ IdleGrid
    /\ IdleSvg

NextEngine ==
    \/ Basketball2dPanic
    \/ Basketball2dBegin
    \/ Basketball2dStep
    \/ Basketball2dReturn

Spec == InitEngine /\ [][NextEngine]_vars

-----------------------------------------------------------------------------
(* Claims about the trajectory engine, checked under Spec. *)

\* basketball_2d has computed its time steps.
Sampling == bb_pc \in { "loop", "returned" }

\* C1: get_time_steps(T, N) returns exactly N values 0, D, 2D, ..., (N-2)D, T
\* with D = T/(N-1): first 0, last T, length N.
C1_TimeStepsShape ==
    Sampling =>
        LET N == args.num_steps
            T == args.simulation_sec
            D == FDiv(T, (N - 1) * Scale)
        IN  /\ Len(time_steps) = N
            /\ time_steps[1] = 0
            /\ time_steps[Len(time_steps)] = T
            /\ \A i \in 2..(N - 1) : time_steps[i] = FMul(D, (i - 1) * Scale)

\* C2: the time sequence is strictly increasing, and so the retained samples
\* are in strictly increasing time order with no time repeated.
C2_StrictlyIncreasing ==
    Sampling =>
        /\ \A i \in 1..(Len(time_steps) - 1) : time_steps[i] < time_steps[i + 1]
        /\ \A i \in 1..(Len(trajectory_2d) - 1) :
               trajectory_2d[i][1] < trajectory_2d[i + 1][1]

\* C3: the returned "ever entered" flag is true iff some retained sample is
\* flagged entered (is within the capture radius of the target).
C3_FlagIffRetainedEntered ==
    bb_pc = "returned" =>
        (flag_into_the_basket <=>
            \E i \in 1..Len(trajectory_2d) : trajectory_2d[i][3])

\* The samples of the first n time steps whose height is not negative.
KeptOf(n) ==
    SelectSeq([i \in 1..n |-> BodyLocals(args, time_steps[i])],
              LAMBDA s : s.ball_y >= 0)

\* C4: a time step's sample is retained iff its height y is >= 0, whatever
\* happened to earlier samples: the retained list is the list of all consumed
\* time steps with y >= 0, in order, and every retained sample has y >= 0.
C4_RetainedIffNonNegative ==
    Sampling =>
        LET kept == KeptOf(step_idx)
        IN  /\ Len(trajectory_2d) = Len(kept)
            /\ \A i \in 1..Len(kept) :
                   /\ trajectory_2d[i][1] = kept[i].t
                   /\ trajectory_2d[i][2] = << kept[i].ball_x, kept[i].ball_y >>
            /\ \A i \in 1..Len(trajectory_2d) : trajectory_2d[i][2][2] >= 0

\* A returned trajectory with a gap: an earlier time step was dropped (y < 0)
\* and a later one retained.
C4_Witness_Gap ==
    /\ bb_pc = "returned"
    /\ \E i, j \in 1..Len(time_steps) :
           /\ i < j
           /\ BallY(args, time_steps[i]) < 0
           /\ BallY(args, time_steps[j]) >= 0
           /\ \E k \in 1..Len(trajectory_2d) :
                  trajectory_2d[k][1] = time_steps[j]

C10_StepFlags ==
    Sampling =>
        /\ step_idx > 0 =>
              /\ ball.dist = euclidean_distance(ball.ball_x, ball.ball_y, 0,
                                 args.basket_pos_x, args.basket_pos_y, 0)
              /\ ball.flag_enter_instant <=> ball.dist <= 100
        /\ flag_into_the_basket <=>
              \E i \in 1..step_idx :
                  BodyLocals(args, time_steps[i]).dist <= 100

\* C10: a step's "entered" flag is true exactly when the distance from the
\* ball to the target is <= 0.1 (inclusive); the aggregate flag starts false,
\* is true from the first such step on, and no step resets it.
C10_MonotoneOr ==
    /\ [](C10_StepFlags)
    /\ [][flag_into_the_basket => flag_into_the_basket']_vars

\* The run is over, one step was exactly 0.1 m from the target, the last step
\* was not within the radius, and the aggregate flag is still set.
C10_Witness_BoundaryThenKept ==
    /\ bb_pc = "returned"
    /\ \E i \in 1..Len(time_steps) :
           BodyLocals(args, time_steps[i]).dist = 100
    /\ ~ball.flag_enter_instant
    /\ flag_into_the_basket

-----------------------------------------------------------------------------
(* Specification of the character grid: set_pixel_meters called on a fresh  *)
(* DisplayCMD with coordinates of a bounded set.                            *)

InitGrid ==
    /\ IdleEngine
    /\ trajectory_2d = << >>
    /\ flag_into_the_basket = FALSE
    /\ \E g \in GridSizes, m \in GridMeters :
          display_cmd = DisplayCMD_new(g[1], g[2], m[1], m[2])
    /\ grid_pc = "ready"
    /\ call = [ ch |-> " ", row_meters_p |-> 0, col_meters_p |-> 0,
                flag_enter_instant |-> FALSE ]
    /\ num_calls = 0
    /\ IdleSvg

NextGrid == SetPixelMeters

SpecGrid == InitGrid /\ [][NextGrid]_vars

C11_FiveMarkerCells ==
    [][ ( /\ num_calls' # num_calls
          /\ call'.flag_enter_instant
          /\ 0 <= call'.col_meters_p
          /\ call'.col_meters_p <= display_cmd.cols_meters
          /\ 0 <= call'.row_meters_p
          /\ call'.row_meters_p <= display_cmd.rows_meters ) =>
          LET d   == display_cmd
              row == RDiv(call'.row_meters_p * (d.num_rows - 1), d.rows_meters)
              col == RDiv(call'.col_meters_p * (d.num_cols - 1), d.cols_meters)
              marked == { row * d.num_cols + c + 1 : c \in (col - 2)..(col + 2) }
          IN  /\ grid_pc' = "ready"
              /\ row < d.num_rows
              /\ col - 2 >= 0
              /\ col + 2 < d.num_cols
              /\ \A i \in 1..Len(d.buf) :
                    IF i \in marked
                    THEN display_cmd'.buf[i] \in { "=", "*" }
                    ELSE display_cmd'.buf[i] = d.buf[i]
      ]_vars

\* An entered sample in the middle of a grid wide enough: its five cells are
\* marked "==*==" (the case of C11 in which the code does what it says).
C11_Witness_FiveMarked ==
    /\ grid_pc = "ready"
    /\ num_calls = 1
    /\ call.flag_enter_instant
    /\ \E i \in 1..(Len(display_cmd.buf) - 4) :
          SubSeq(display_cmd.buf, i, i + 4) = << "=", "=", "*", "=", "=" >>

-----------------------------------------------------------------------------
(* Specification of the SVG output: plot_trajectory_svg and to_file on      *)
(* every trajectory of a bounded set.                                       *)

\* Sample positions: x left of the origin, on it, and two extents; y on the
\* ground and above it (a retained sample has y >= 0).
SampleXs == { -1000, 0, 210, 3000 }

SampleYs == { 0, 7000 }

Samples ==
    { << 0, << x, y >>, f >> : x \in SampleXs, y \in SampleYs, f \in BOOLEAN }

\* Trajectories of at most n samples.
RECURSIVE Trajectories(_)
Trajectories(n) ==
    IF n = 0 THEN { << >> }
    ELSE LET shorter == Trajectories(n - 1)
         IN  shorter \cup
               { Append(t, s) : t \in { u \in shorter : Len(u) = n - 1 },
                                s \in Samples }

InitSvg ==
    /\ args = [ pos_0_x |-> 0, pos_0_y |-> 0, v_0 |-> 0, teta_0 |-> 0,
                basket_pos_x |-> 8000, basket_pos_y |-> 3050,
                simulation_sec |-> 0, num_steps |-> 0 ]
    /\ bb_pc = "returned"
    /\ time_steps = << >>
    /\ step_idx = 0
    /\ ball = NoLocals
    /\ trajectory_2d \in Trajectories(MaxSamples)
    /\ flag_into_the_basket \in BOOLEAN
    /\ IdleGrid
    /\ canvas = [ svg_x_max |-> 500 * Scale, svg_y_max |-> 300 * Scale ]
    /\ plot = NoPlot
    /\ svg = SVG_new(0, 0, "None")
    /\ svg_pc = "plot"
    /\ res_str = << >>
    /\ fs = NoFile
    /\ to_file_result = NoResult

NextSvg ==
    \/ PlotTrajectorySvgPanic
    \/ PlotTrajectorySvg
    \/ ToFileString
    \/ FileCreate
    \/ WriteAll

SpecSvg == InitSvg /\ [][NextSvg]_vars

\* plot_trajectory_svg has returned an SVG.
Plotted == svg_pc \in { "to_file", "create", "write", "done" }

\* The coordinates, x and y, of the samples of the trajectory.
Extents ==
    { trajectory_2d[i][2][1] : i \in 1..Len(trajectory_2d) }
      \cup { trajectory_2d[i][2][2] : i \in 1..Len(trajectory_2d) }

\* The larger of the largest x and the largest y of a non-empty trajectory.
LargestExtent == CHOOSE m \in Extents : \A e \in Extents : e <= m

FitTolerance(m) == m \div (2 * Scale) + 1

Written == svg_pc \in { "create", "write", "done" }

\* C8: the document is, in this order: the <svg> header, one background
\* <rect>, one trace <circle> per sample in sample order (green when the
\* sample is flagged entered, blue otherwise), one target <rect>, one
\* <path id="motionPath"> through all sample points in sample order, one
\* <circle id="circle">, one <animateMotion> wired to #circle and #motionPath
\* with dur=3s, begin=0s, fill=freeze, repeatCount=indefinite, then </svg>.
C8_DocumentOrder ==
    Written =>
        LET n   == Len(trajectory_2d)
            doc == res_str
            HasAttr(p, a) == \E k \in 1..Len(p.attrs) : p.attrs[k] = a
        IN  /\ Len(doc) = 2 * n + 9
            /\ doc[1].tag = "svg"
            /\ doc[2].tag = "rect" /\ doc[2].fill = "black"
            /\ HasAttr(doc[2], "width=100%") /\ HasAttr(doc[2], "height=100%")
            /\ \A i \in 1..n :
                  /\ doc[2 + i].tag = "circle"
                  /\ doc[2 + i].id = ""
                  /\ doc[2 + i].fill =
                        (IF trajectory_2d[i][3] THEN "green" ELSE "blue")
                  /\ doc[2 + i].x =
                        Fmt2(ProjX(trajectory_2d[i][2][1], plot.scale_factor))
                  /\ doc[2 + i].y =
                        Fmt2(ProjY(trajectory_2d[i][2][2], plot.scale_factor,
                                   canvas.svg_y_max))
            /\ doc[n + 3].tag = "rect" /\ doc[n + 3].fill = ""
            /\ doc[n + 4].tag = "path" /\ doc[n + 4].id = "motionPath"
            /\ doc[n + 4].x = doc[3].x /\ doc[n + 4].y = doc[3].y
            /\ \A i \in 1..n :
                  /\ doc[n + 4 + i].tag = "L"
                  /\ doc[n + 4 + i].x = doc[2 + i].x
                  /\ doc[n + 4 + i].y = doc[2 + i].y
            /\ doc[2 * n + 5].tag = "/path"
            /\ doc[2 * n + 6].tag = "circle" /\ doc[2 * n + 6].id = "circle"
            /\ doc[2 * n + 7].tag = "animateMotion"
            /\ HasAttr(doc[2 * n + 7], "xlink:href=#circle")
            /\ HasAttr(doc[2 * n + 7], "mpath xlink:href=#motionPath")
            /\ HasAttr(doc[2 * n + 7], "dur=3s")
            /\ HasAttr(doc[2 * n + 7], "begin=0s")
            /\ HasAttr(doc[2 * n + 7], "fill=freeze")
            /\ HasAttr(doc[2 * n + 7], "repeatCount=indefinite")
            /\ doc[2 * n + 8].tag = "newline"
            /\ doc[2 * n + 9].tag = "/svg"

\* A document of a trajectory of two different points, the first flagged
\* entered and the second not.
C8_Witness_GreenThenBlue ==
    /\ Written
    /\ Len(trajectory_2d) = 2
    /\ trajectory_2d[1][3] /\ ~trajectory_2d[2][3]
    /\ trajectory_2d[1][2] # trajectory_2d[2][2]
    /\ res_str[3].fill = "green" /\ res_str[4].fill = "blue"

\* C9: to_file never crashes on an I/O failure and retries nothing: it makes
\* at most one create and then at most one write; a failed create ends it
\* with Err carrying that error's message and no write; a failed write ends
\* it with Err carrying that error's message; it ends with Ok only after
\* both succeeded, the whole document written.
C9_ToFileErrors ==
    LET calls == fs.calls
    IN  /\ Len(calls) <= 2
        /\ Len(calls) >= 1 => calls[1][1] = "create"
        /\ Len(calls) = 2 => calls[1][2] = "Ok" /\ calls[2][1] = "write"
        /\ svg_pc = "panicked" => calls = << >>
        /\ svg_pc # "done" => to_file_result[1] = "none"
        /\ svg_pc = "done" =>
              LET last == calls[Len(calls)]
              IN  IF last[2] = "Ok"
                  THEN /\ last[1] = "write"
                       /\ to_file_result[1] = "Ok"
                       /\ fs.content = res_str
                  ELSE to_file_result = << "Err", ErrorToString(last[2]) >>
        /\ to_file_result[1] = "Ok" =>
              calls = << << "create", "Ok" >>, << "write", "Ok" >> >>

\* File::create failed and to_file returned its message without writing.
C9_Witness_CreateFailed ==
    /\ svg_pc = "done"
    /\ fs.calls = << << "create", "PermissionDenied" >> >>
    /\ to_file_result = << "Err", "Permission denied (os error 13)" >>

-----------------------------------------------------------------------------
(* Specification of plot_trajectory_svg and to_file on the trajectories     *)
(* basketball_2d returns.                                                   *)

\* main: plot_trajectory_svg(&trajectory_2d, basket_pos_x, basket_pos_y,
\* svg_x_max, svg_y_max) with svg_x_max = 500.0 and svg_y_max = 300.0.
MainPlotTrajectory ==
    /\ bb_pc = "returned"
    /\ svg_pc = "idle"
    /\ canvas' = [ svg_x_max |-> 500 * Scale, svg_y_max |-> 300 * Scale ]
    /\ svg_pc' = "plot"
    /\ UNCHANGED << engine_vars, trajectory_vars, grid_vars, plot, svg,
                    res_str, fs, to_file_result >>

NextPlot ==
    \/ NextEngine
    \/ MainPlotTrajectory
    \/ NextSvg

SpecPlot == InitEngine /\ [][NextPlot]_vars

\* C12: plot_trajectory_svg completes without failure for every Trajectory
\* basketball_2d can return, an empty one and one with coordinates off the
\* canvas included.
C12_PlotNeverFails ==
    bb_pc = "returned" => svg_pc # "panicked"

\* A returned trajectory with a sample projected above the canvas (negative
\* cy) has been plotted: the case of C12 in which the code does what it says.
C12_Witness_OffCanvasPlotted ==
    /\ bb_pc = "returned"
    /\ Plotted
    /\ \E i \in 1..Len(trajectory_2d) :
          /\ IsFinite(svg.elem_str_vec[1][i].y)
          /\ svg.elem_str_vec[1][i].y < 0

=============================================================================
